---- MODULE Spec2Model ----
(***************************************************************************)
(* A model of the face/body isolation pipeline of photo_analyzer.py.       *)
(*                                                                         *)
(* Spec      one analyze request (process_photo) run on a small pixel      *)
(*           grid: decode, face detection, the 3% size filter, the         *)
(*           multi-face branch, background removal, occlusion of the       *)
(*           non-selected people, body bounds and rendering.               *)
(* SpecConc  several analyze requests handled by threads of one server     *)
(*           process, sharing the temporary directory.                     *)
(*                                                                         *)
(* Arithmetic.  Percentages are exact rationals: a box carries numerators  *)
(* x, y, width, height and denominators xd, yd (percentage = x / xd).      *)
(* Python's int() is truncation.  The source computes in IEEE doubles;     *)
(* the model is exact except where the source turns a pixel count into a   *)
(* percentage and back, int(((v / dim) * 100 / 100) * dim), which loses a  *)
(* pixel for the (v, dim) pairs of FloatLoss.  For the face boxes of Pool   *)
(* and of the cascade, on the grids used, the doubles of crop_to_box and   *)
(* remove_faces_except truncate to the same pixels as the exact values.    *)
(* Confidences are integer hundredths (0.15 is 15).                        *)
(***************************************************************************)
EXTENDS Integers, Sequences, FiniteSets, TLC

VARIABLES
    mp_api,            \* MediaPipe API found at import: "legacy", "tasks", "none"
    pc,                \* position of process_photo
    selected_face_id,  \* the request's selected_face_id (None_id = not given)
    img_loaded,        \* cv2.imread returned an image
    detected,          \* list returned by detect_all_faces_mediapipe
    all_faces,         \* detected after the 3% size filter
    face_box,          \* the face chosen for the thumbnail
    full_img_rgba,     \* RGBA working image, or NoImage
    body_mask,         \* segmentation mask, or NoImage
    fi,                \* loop index of remove_faces_except over all_faces
    body_box,          \* body bounding box, or Null
    result,            \* the dict process_photo returns, or Null
    ran,               \* stages executed so far, in order
    fs,                \* SpecConc: files of TEMP_DIR (name -> content)
    rq,                \* SpecConc: per-request thread state
    lp,                \* SpecLpips: _lpips_model and the threads calling for it
    fn                 \* SpecFn: the last call of a pure function

vars == <<mp_api, pc, selected_face_id, img_loaded, detected, all_faces, face_box,
          full_img_rgba, body_mask, fi, body_box, result, ran, fs, rq, lp, fn>>

pipeVars == <<mp_api, pc, selected_face_id, img_loaded, detected, all_faces, face_box,
              full_img_rgba, body_mask, fi, body_box, result, ran>>

concVars == <<fs, rq>>

(***************************************************************************)
(* Bounds of the model.                                                    *)
(***************************************************************************)
ImgW == 16
ImgH == 12
MaxFaces == 3

(***************************************************************************)
(* Program constants.                                                      *)
(***************************************************************************)
MinConfidence == 15
MinFaceSize == 3
FacePadNum == 3
FacePadDen == 10
BodyPadNum == 5
BodyPadDen == 100
DupDistance == 10
AlphaWhiteBelow == 128
max_w == 512
max_h == 768
FaceThumbSize == 768
SelectThumbSize == 200
OpenCvConfidence == 50
None_id == -1

Null == [kind |-> "null"]
NoImage == [kind |-> "none"]

Max(a, b) == IF a >= b THEN a ELSE b
Min(a, b) == IF a <= b THEN a ELSE b
Abs(a) == IF a >= 0 THEN a ELSE -a

\* Python int(n / d) for d > 0: truncation toward zero.
Trunc(n, d) == IF n >= 0 THEN n \div d ELSE -((-n) \div d)

Pixels == (0 .. ImgW - 1) \X (0 .. ImgH - 1)

\* numpy slice [y1:y2, x1:x2] of an ImgW x ImgH image, as a set of pixels.
Slice(x1, x2, y1, y2) ==
    {p \in Pixels : p[1] >= x1 /\ p[1] < x2 /\ p[2] >= y1 /\ p[2] < y2}

(***************************************************************************)
(* Geometry utilities.  A box is [x, y, width, height, xd, yd, px]; px     *)
(* says that the percentages were computed as (v / dim) * 100 from pixel   *)
(* counts v of an image of dimension dim = xd (yd).                        *)
(***************************************************************************)
\* The (v, dim), dim <= 24, for which int(((v / dim) * 100 / 100) * dim) is
\* v - 1 in IEEE double arithmetic (it is v for every other pair).
FloatLoss ==
    {<<1, 3>>, <<2, 3>>, <<1, 6>>, <<2, 6>>, <<4, 6>>, <<3, 9>>, <<6, 9>>,
     <<1, 12>>, <<2, 12>>, <<4, 12>>, <<8, 12>>, <<11, 12>>,
     <<5, 15>>, <<7, 15>>, <<10, 15>>, <<14, 15>>,
     <<1, 17>>, <<2, 17>>, <<4, 17>>, <<8, 17>>, <<11, 17>>, <<16, 17>>,
     <<3, 18>>, <<6, 18>>, <<12, 18>>, <<13, 18>>,
     <<5, 21>>, <<7, 21>>, <<10, 21>>, <<14, 21>>, <<20, 21>>,
     <<15, 22>>, <<13, 23>>, <<19, 23>>,
     <<1, 24>>, <<2, 24>>, <<4, 24>>, <<8, 24>>, <<11, 24>>, <<16, 24>>,
     <<19, 24>>, <<22, 24>>}

\* int((pct / 100) * dim) for the percentage n / d.
PctToPx(n, d, dim, px) ==
    IF px /\ d = dim /\ n % 100 = 0
    THEN IF <<n \div 100, dim>> \in FloatLoss
         THEN (n \div 100) - 1 ELSE n \div 100
    ELSE Trunc(n * dim, 100 * d)

\* The x/y/width/height of a face dict as a box in whole percent.
BoxOf(face) ==
    [x |-> face.x, y |-> face.y, width |-> face.width, height |-> face.height,
     xd |-> 1, yd |-> 1, px |-> FALSE]

\* Mutant of add_padding_to_box: the padded size is not clamped to what is
\* left of the image.
add_padding_to_box_Unclamped(box, pn, pd) ==
    LET pad_x == box.width * pn
        pad_y == box.height * pn
    IN  [x |-> Max(0, box.x * pd - pad_x),
         y |-> Max(0, box.y * pd - pad_y),
         width |-> box.width * pd + 2 * pad_x,
         height |-> box.height * pd + 2 * pad_y,
         xd |-> box.xd * pd,
         yd |-> box.yd * pd,
         px |-> FALSE]

\* add_padding_to_box(box, pn / pd)
add_padding_to_box(box, pn, pd) ==
    LET pad_x == box.width * pn          \* in units of 1 / (xd * pd)
        pad_y == box.height * pn
        nx == Max(0, box.x * pd - pad_x)
        ny == Max(0, box.y * pd - pad_y)
    IN  [x |-> nx,
         y |-> ny,
         width |-> Min(100 * box.xd * pd - nx, box.width * pd + 2 * pad_x),
         height |-> Min(100 * box.yd * pd - ny, box.height * pd + 2 * pad_y),
         xd |-> box.xd * pd,
         yd |-> box.yd * pd,
         px |-> FALSE]

\* Mutant of crop_to_box: the far edges are taken to be width and height.
crop_to_box_SizeAsEdge(w, h, box) ==
    LET x0 == PctToPx(box.x, box.xd, w, box.px)
        y0 == PctToPx(box.y, box.yd, h, box.px)
        width == PctToPx(box.width, box.xd, w, box.px)
        height == PctToPx(box.height, box.yd, h, box.px)
    IN  [x1 |-> Max(0, x0), y1 |-> Max(0, y0),
         x2 |-> Min(w, width), y2 |-> Min(h, height)]

\* crop_to_box(image, box) on a w x h image: the pixel rectangle that is cut.
crop_to_box(w, h, box) ==
    LET x0 == PctToPx(box.x, box.xd, w, box.px)
        y0 == PctToPx(box.y, box.yd, h, box.px)
        width == PctToPx(box.width, box.xd, w, box.px)
        height == PctToPx(box.height, box.yd, h, box.px)
        x == Max(0, x0)
        y == Max(0, y0)
    IN  [x1 |-> x, y1 |-> y, x2 |-> Min(w, x + width), y2 |-> Min(h, y + height)]

\* Pixel dimensions of a cropped array (numpy gives an empty axis when x2 <= x1).
CropW(r) == Max(0, r.x2 - r.x1)
CropH(r) == Max(0, r.y2 - r.y1)
\* cropped.size == 0
CropEmpty(r) == CropW(r) = 0 \/ CropH(r) = 0

\* get_body_bounds_from_mask from cv2.boundingRect on: the bounding rectangle
\* (x, y, bw, bh) of the nonzero pixels of a w x h mask, padded by pn / pd of
\* its extents and turned into percentages.
BoundsOfRect(w, h, x, y, bw, bh, pn, pd) ==
    LET pad_x == Trunc(bw * pn, pd)
        pad_y == Trunc(bh * pn, pd)
        x2 == Max(0, x - pad_x)
        y2 == Max(0, y - pad_y)
        bw2 == Min(w - x2, bw + 2 * pad_x)
        bh2 == Min(h - y2, bh + 2 * pad_y)
    IN  [x |-> 100 * x2, y |-> 100 * y2,
         width |-> 100 * bw2, height |-> 100 * bh2,
         xd |-> w, yd |-> h, px |-> TRUE]

\* get_body_bounds_from_mask(mask, pn / pd): mask is a function Pixels -> 0..255.
get_body_bounds_from_mask(mask, pn, pd) ==
    LET nz == {p \in Pixels : mask[p] # 0}
    IN  IF nz = {} THEN Null
        ELSE
          LET xs == {p[1] : p \in nz}
              ys == {p[2] : p \in nz}
              x == CHOOSE v \in xs : \A u \in xs : v <= u
              y == CHOOSE v \in ys : \A u \in ys : v <= u
              bw == (CHOOSE v \in xs : \A u \in xs : v >= u) - x + 1
              bh == (CHOOSE v \in ys : \A u \in ys : v >= u) - y + 1
          IN  BoundsOfRect(ImgW, ImgH, x, y, bw, bh, pn, pd)

\* The (v, dim), dim <= 24, for which (v / dim) * 100 + ((dim - v) / dim) * 100
\* is greater than 100 in IEEE double arithmetic (it is 100 or less for every
\* other pair, and less than 100 whenever the two counts add up to less
\* than dim).
FloatSumOver ==
    {<<2, 11>>, <<9, 11>>, <<3, 13>>, <<10, 13>>, <<4, 22>>, <<18, 22>>,
     <<1, 24>>, <<7, 24>>, <<17, 24>>, <<23, 24>>}

\* x + width > 100 as the doubles of a box compare: n / d and m / d are the
\* two percentages.
SumOver100(n, m, d, px) ==
    \/ n + m > 100 * d
    \/ /\ px /\ n + m = 100 * d /\ n % 100 = 0
       /\ <<n \div 100, d>> \in FloatSumOver

\* The sizes of body crops the resize is applied to.
ResizeSizes ==
    {1, 2, 3, 100, 511, 512, 513, 600, 767, 768, 769, 784, 1000, 1024, 1536,
     2000, 4000}

\* The (v, cap, d) with v, d in ResizeSizes or at most 24 for which
\* int(v * (cap / d)) in IEEE double arithmetic is one less than the exact
\* quotient: 512 / 784 is rounded down and 784 * (512 / 784) is
\* 511.99999999999994.
FloatScaleLoss == {<<784, 512, 784>>}

\* int(v * scale) for scale = cap / d
Scaled(v, cap, d) ==
    Trunc(v * cap, d) - (IF <<v, cap, d>> \in FloatScaleLoss THEN 1 ELSE 0)

\* The body-image resize of process_photo: the (new_w, new_h) of a bw x bh crop.
ResizeDims(bw, bh) ==
    IF bw > max_w \/ bh > max_h
    THEN IF max_w * bh <= max_h * bw          \* max_w/bw <= max_h/bh
         THEN <<Scaled(bw, max_w, bw), Scaled(bh, max_w, bw)>>
         ELSE <<Scaled(bw, max_h, bh), Scaled(bh, max_h, bh)>>
    ELSE <<bw, bh>>

\* cv2.resize raises when a target dimension is 0.
ResizeRaises(bw, bh) == ResizeDims(bw, bh)[1] = 0 \/ ResizeDims(bw, bh)[2] = 0

(***************************************************************************)
(* Face Candidate Finder.  A face is [id, x, y, width, height, confidence] *)
(* in whole percent; a raw detection is the same record with id 0.         *)
(***************************************************************************)
Face(x, y, w, h, c) ==
    [id |-> 0, x |-> x, y |-> y, width |-> w, height |-> h, confidence |-> c]

\* for i, face in enumerate(faces): face['id'] = i
Renumber(faces) == [i \in 1 .. Len(faces) |-> [faces[i] EXCEPT !.id = i - 1]]

\* The two sort keys of the source: f['confidence'], f['width'] * f['height'].
SortKey(f, by) == IF by = "confidence" THEN f.confidence ELSE f.width * f.height

\* list.sort(key=..., reverse=True) is stable: f goes after every element
\* whose key is >= its own.
RECURSIVE InsertDesc(_, _, _)
InsertDesc(sorted, f, by) ==
    IF sorted = <<>> THEN <<f>>
    ELSE IF SortKey(Head(sorted), by) >= SortKey(f, by)
         THEN <<Head(sorted)>> \o InsertDesc(Tail(sorted), f, by)
         ELSE <<f>> \o sorted

RECURSIVE SortDesc(_, _)
SortDesc(faces, by) ==
    IF faces = <<>> THEN <<>>
    ELSE InsertDesc(SortDesc(SubSeq(faces, 1, Len(faces) - 1), by),
                    faces[Len(faces)], by)

\* detect_all_faces_opencv: aspect filter on the pixel rectangle, confidence
\* 0.5, sort by area, re-number.
AspectOk(f) ==
    /\ f.height > 0
    /\ 2 * f.width * ImgW >= f.height * ImgH       \* w / h >= 0.5
    /\ f.width * ImgW <= 2 * f.height * ImgH       \* w / h <= 2.0

detect_all_faces_opencv(cv) ==
    LET kept == SelectSeq(cv, AspectOk)
        conf == [i \in 1 .. Len(kept) |->
                    [kept[i] EXCEPT !.confidence = OpenCvConfidence]]
    IN  Renumber(SortDesc(conf, "area"))

\* detect_all_faces_mediapipe_tasks: sort by confidence, re-number.
detect_all_faces_mediapipe_tasks(det) == Renumber(SortDesc(det, "confidence"))

\* The duplicate test of the merge loop: centres within 10 on both axes.
IsDuplicate(face, existing) ==
    /\ Abs((2 * face.x + face.width) - (2 * existing.x + existing.width))
           < 2 * DupDistance
    /\ Abs((2 * face.y + face.height) - (2 * existing.y + existing.height))
           < 2 * DupDistance

\* One iteration of the merge loop: detection d against the list faces.
MergeOne(faces, d) ==
    IF d.confidence < MinConfidence THEN faces
    ELSE LET face == [d EXCEPT !.id = Len(faces)]
             dups == {i \in 1 .. Len(faces) : IsDuplicate(face, faces[i])}
         IN  IF dups = {} THEN Append(faces, face)
             ELSE LET i == CHOOSE j \in dups : \A k \in dups : j <= k
                  IN  IF face.confidence > faces[i].confidence
                      THEN [faces EXCEPT ![i] = face]
                      ELSE faces

\* The merge loop over the detections of model 0 then model 1, in order.
RECURSIVE MergeAll(_, _)
MergeAll(faces, dets) ==
    IF dets = <<>> THEN faces
    ELSE MergeAll(MergeOne(faces, Head(dets)), Tail(dets))

AboveMinConfidence(f) == f.confidence >= MinConfidence

\* The module-level flags set by the import block.
MEDIAPIPE_AVAILABLE == mp_api = "legacy"
MEDIAPIPE_TASKS_AVAILABLE == mp_api = "tasks"

\* Mutant of detect_all_faces_mediapipe: the cascade is preferred when it
\* finds as many faces as the neural detector (>= for >).
detect_all_faces_mediapipe_PreferCascade(det, cv) ==
    IF MEDIAPIPE_TASKS_AVAILABLE
    THEN LET high == SelectSeq(detect_all_faces_mediapipe_tasks(det),
                            AboveMinConfidence)
             opencv_faces == detect_all_faces_opencv(cv)
             faces == IF Len(high) < 2 /\ Len(opencv_faces) >= Len(high)
                      THEN opencv_faces ELSE high
         IN  Renumber(SortDesc(faces, "confidence"))
    ELSE IF ~MEDIAPIPE_AVAILABLE
    THEN detect_all_faces_opencv(cv)
    ELSE LET faces == Renumber(SortDesc(MergeAll(<<>>, det), "confidence"))
             opencv_faces == detect_all_faces_opencv(cv)
         IN  IF Len(faces) < 2 /\ Len(opencv_faces) >= Len(faces)
             THEN opencv_faces ELSE faces

\* detect_all_faces_mediapipe(image, min_confidence=0.15).  det is the
\* detections of the neural detector in the order it reports them, cv those
\* of the cascade.
detect_all_faces_mediapipe(det, cv) ==
    IF MEDIAPIPE_TASKS_AVAILABLE
    THEN LET high == SelectSeq(detect_all_faces_mediapipe_tasks(det),
                            AboveMinConfidence)
             opencv_faces == detect_all_faces_opencv(cv)
             faces == IF Len(high) < 2 /\ Len(opencv_faces) > Len(high)
                      THEN opencv_faces ELSE high
         IN  Renumber(SortDesc(faces, "confidence"))
    ELSE IF ~MEDIAPIPE_AVAILABLE
    THEN detect_all_faces_opencv(cv)
    ELSE LET faces == Renumber(SortDesc(MergeAll(<<>>, det), "confidence"))
             opencv_faces == detect_all_faces_opencv(cv)
         IN  IF Len(faces) < 2 /\ Len(opencv_faces) > Len(faces)
             THEN opencv_faces ELSE faces

\* The neural detector's candidates at or above min_confidence:
\* high_conf_faces of the Tasks path, faces after the merge loop and the
\* sort of the legacy path.
PrimaryAccepted(det) ==
    IF MEDIAPIPE_TASKS_AVAILABLE
    THEN SelectSeq(detect_all_faces_mediapipe_tasks(det), AboveMinConfidence)
    ELSE Renumber(SortDesc(MergeAll(<<>>, det), "confidence"))

\* Whether detect_all_faces_opencv is called.
CascadeRuns(det) ==
    IF MEDIAPIPE_TASKS_AVAILABLE \/ MEDIAPIPE_AVAILABLE
    THEN Len(PrimaryAccepted(det)) < 2
    ELSE TRUE

\* The size filter of process_photo: width and height at least 3%.
BigEnough(f) == f.width >= MinFaceSize /\ f.height >= MinFaceSize
SizeFilter(faces) == SelectSeq(faces, BigEnough)

(***************************************************************************)
(* Images.  An RGBA image maps each pixel to [a, c]: a is the alpha value, *)
(* c is "photo" (the original colour) or "white".                          *)
(***************************************************************************)
\* remove_background: bgra of the photo with the (blurred) mask as alpha and
\* white colour where the mask is below 128.
ApplyMask(mask) ==
    [p \in Pixels |->
        [a |-> mask[p],
         c |-> IF mask[p] < AlphaWhiteBelow THEN "white" ELSE "photo"]]

AlphaOf(image) == [p \in Pixels |-> image[p].a]

(***************************************************************************)
(* Occlusion Compositor: remove_faces_except.                              *)
(***************************************************************************)
\* int((face['x'] + face['width'] / 2) / 100 * w)
CenterX(face) == Trunc((2 * face.x + face.width) * ImgW, 200)

\* Mutant of EraseFaceRect: the face rectangle without its 30% padding.
EraseFaceRect_Unpadded(face) ==
    [x1 |-> Trunc(face.x * ImgW, 100),
     x2 |-> Trunc(Min(100, face.x + face.width) * ImgW, 100),
     y1 |-> Trunc(face.y * ImgH, 100),
     y2 |-> Trunc(Min(100, face.y + face.height) * ImgH, 100)]

\* The padded face rectangle erased for a non-selected face.
EraseFaceRect(face) ==
    [x1 |-> Trunc(Max(0, FacePadDen * face.x - FacePadNum * face.width) * ImgW,
                  100 * FacePadDen),
     x2 |-> Trunc(Min(100 * FacePadDen,
                      FacePadDen * (face.x + face.width)
                          + FacePadNum * face.width) * ImgW,
                  100 * FacePadDen),
     y1 |-> Trunc(Max(0, FacePadDen * face.y - FacePadNum * face.height) * ImgH,
                  100 * FacePadDen),
     y2 |-> Trunc(Min(100 * FacePadDen,
                      FacePadDen * (face.y + face.height)
                          + FacePadNum * face.height) * ImgH,
                  100 * FacePadDen)]

\* The pixels one loop iteration erases for the non-selected face.
ErasedPixels(face, selected_center_x) ==
    LET other_center_x == CenterX(face)
        midpoint_x == (selected_center_x + other_center_x) \div 2
        remove_left == other_center_x < midpoint_x
        r == EraseFaceRect(face)
        facePx == IF r.x2 > r.x1 /\ r.y2 > r.y1
                  THEN Slice(r.x1, r.x2, r.y1, r.y2) ELSE {}
        bodyPx == IF remove_left
                  THEN Slice(0, midpoint_x, r.y2, ImgH)
                  ELSE Slice(midpoint_x, ImgW, r.y2, ImgH)
    IN  facePx \cup bodyPx

\* Mutant of EraseWrite: only the alpha channel is written.
EraseWrite_AlphaOnly(image, px) ==
    [p \in Pixels |-> IF p \in px THEN [image[p] EXCEPT !.a = 0] ELSE image[p]]

\* The writes of one loop iteration: white colour, alpha 0.
EraseWrite(image, px) ==
    [p \in Pixels |-> IF p \in px THEN [a |-> 0, c |-> "white"] ELSE image[p]]

\* Mutant of EraseOther: every iteration starts again from the image passed
\* in (result = image.copy() inside the loop).
EraseOther_FromOriginal(image, original, face, selected_center_x) ==
    EraseWrite(original, ErasedPixels(face, selected_center_x))

\* One iteration of the loop over all_faces; original is the image passed in.
EraseOther(image, original, face, selected_center_x) ==
    EraseWrite(image, ErasedPixels(face, selected_center_x))

\* Index in all_faces of the first face whose id is keep_face_id, 0 if none.
SelectedIndex(keep_face_id, faces) ==
    LET hits == {i \in 1 .. Len(faces) : faces[i].id = keep_face_id}
    IN  IF hits = {} THEN 0 ELSE CHOOSE i \in hits : \A j \in hits : i <= j

(***************************************************************************)
(* What the black boxes may return.                                        *)
(***************************************************************************)
FaceLeft == Face(10, 10, 20, 30, 90)
FaceRight == Face(60, 20, 20, 30, 70)
FaceMid == Face(35, 5, 30, 40, 60)
FaceTiny == Face(49, 24, 2, 2, 95)      \* a hair tip, centred on FaceMid
FaceEdge == Face(97, 50, 3, 30, 60)     \* a sliver at the right image edge
FaceFaint == Face(5, 60, 20, 30, 10)    \* below the acceptance threshold
FaceCorner == Face(2, 2, 20, 25, 80)    \* padding clamped at the left and top
FaceLow == Face(70, 68, 25, 28, 75)     \* padding clamped at the bottom
Pool == {FaceLeft, FaceRight, FaceMid, FaceTiny, FaceEdge, FaceFaint,
         FaceCorner, FaceLow}

\* Detections of the neural detector: up to MaxFaces distinct faces, any order.
DetSeqs ==
    {d \in UNION {[1 .. n -> Pool] : n \in 0 .. MaxFaces} :
        \A i, j \in DOMAIN d : i # j => d[i] # d[j]}

CvLeft == Face(12, 12, 18, 28, 0)
CvRight == Face(62, 22, 18, 28, 0)
CvBar == Face(40, 40, 40, 5, 0)         \* not face-shaped
CvSeqs == {<<>>, <<CvLeft, CvRight>>, <<CvBar, CvRight>>}

Apis == {"legacy", "tasks", "none"}

\* binary_mask after threshold and blur: 255 inside, 0 outside, soft edges.
MaskFull == [p \in Pixels |-> 255]
MaskEmpty == [p \in Pixels |-> 0]
MaskPerson ==
    [p \in Pixels |->
        IF p[2] < 1 THEN 0
        ELSE IF p[1] >= 2 /\ p[1] <= ImgW - 3 THEN 255
        ELSE IF p[1] = 1 THEN 100
        ELSE IF p[1] = ImgW - 2 THEN 200
        ELSE 0]
\* a small blob at the top edge
MaskHead ==
    [p \in Pixels |->
        IF p[2] <= 2 /\ p[1] >= ImgW - 7 /\ p[1] <= ImgW - 5 THEN 200 ELSE 0]
SegMasks == {MaskFull, MaskEmpty, MaskPerson, MaskHead}

SelectedIds == {None_id} \cup (0 .. MaxFaces)

(***************************************************************************)
(* process_photo.                                                          *)
(***************************************************************************)
Failure(error) == [success |-> FALSE, error |-> error]

\* create_face_thumbnail(image, face_box, size)
create_face_thumbnail(face, size) ==
    LET r == crop_to_box(ImgW, ImgH,
                         add_padding_to_box(BoxOf(face), FacePadNum, FacePadDen))
    IN  IF CropEmpty(r) THEN Null
        ELSE [kind |-> "jpeg", w |-> size, h |-> size, src |-> r]

\* The entries of "faces" in the selection response.
RECURSIVE FaceThumbnails(_)
FaceThumbnails(faces) ==
    IF faces = <<>> THEN <<>>
    ELSE LET face == Head(faces)
             thumbnail == create_face_thumbnail(face, SelectThumbSize)
         IN  (IF thumbnail # Null
              THEN <<[id |-> face.id, confidence |-> face.confidence,
                      face_box |-> BoxOf(face), thumbnail |-> thumbnail]>>
              ELSE <<>>)
             \o FaceThumbnails(Tail(faces))

\* Step 8, the 768x768 face thumbnail cut from the RGBA image.
FaceThumbnailOf(rgba, face) ==
    IF rgba = NoImage THEN Null
    ELSE create_face_thumbnail(face, FaceThumbSize)

\* The rectangle the body images are cut from.
BodySource(box) ==
    IF box # Null THEN crop_to_box(ImgW, ImgH, box)
    ELSE [x1 |-> 0, y1 |-> 0, x2 |-> ImgW, y2 |-> ImgH]

BodyImage(kind, r) ==
    [kind |-> kind, w |-> ResizeDims(CropW(r), CropH(r))[1],
     h |-> ResizeDims(CropW(r), CropH(r))[2], src |-> r]

\* Mutant of BodyNoBgOf: no fallback to the whole image without a body box.
BodyNoBgOf_NeedsBox(rgba, box) ==
    IF rgba = NoImage \/ box = Null \/ CropEmpty(BodySource(box)) THEN Null
    ELSE BodyImage("png", BodySource(box))

\* body_no_bg: PNG of the RGBA image cropped to body_box (whole image if none).
BodyNoBgOf(rgba, box) ==
    IF rgba = NoImage \/ CropEmpty(BodySource(box)) THEN Null
    ELSE BodyImage("png", BodySource(box))

\* body_crop: JPEG of the photo cropped to body_box.
BodyCropOf(box) ==
    IF box = Null \/ CropEmpty(BodySource(box)) THEN Null
    ELSE BodyImage("jpeg", BodySource(box))

\* cv2.resize raising inside step 8.
RenderRaises(rgba, box) ==
    LET r == BodySource(box)
    IN  /\ ~CropEmpty(r)
        /\ rgba # NoImage \/ box # Null
        /\ ResizeRaises(CropW(r), CropH(r))

Init ==
    /\ mp_api \in Apis
    /\ pc = "start"
    /\ selected_face_id \in SelectedIds
    /\ img_loaded = FALSE
    /\ detected = <<>>
    /\ all_faces = <<>>
    /\ face_box = Null
    /\ full_img_rgba = NoImage
    /\ body_mask = NoImage
    /\ fi = 0
    /\ body_box = Null
    /\ result = Null
    /\ ran = <<>>
    /\ fs = <<>>
    /\ rq = <<>>
    /\ lp = <<>>
    /\ fn = <<>>

\* 1. decode: base64, PIL and cv2.imread; any failure raises.
Decode ==
    /\ pc = "start"
    /\ \E ok \in BOOLEAN :
         IF ok
         THEN /\ img_loaded' = TRUE
              /\ pc' = "detect"
              /\ UNCHANGED result
         ELSE /\ pc' = "done"
              /\ result' = Failure("Failed to load image")
              /\ UNCHANGED img_loaded
    /\ ran' = Append(ran, "decode")
    /\ UNCHANGED <<mp_api, fs, rq, lp, fn, selected_face_id, detected, all_faces, face_box,
                   full_img_rgba, body_mask, fi, body_box>>

\* 2. detect_all_faces_mediapipe returns; then the size filter.
Detect ==
    /\ pc = "detect"
    /\ \E det \in DetSeqs, cv \in CvSeqs :
         /\ detected' = detect_all_faces_mediapipe(det, cv)
         /\ all_faces' = SizeFilter(detected')
    /\ pc' = "faces"
    /\ ran' = Append(ran, "detect")
    /\ UNCHANGED <<mp_api, fs, rq, lp, fn, selected_face_id, img_loaded, face_box, full_img_rgba,
                   body_mask, fi, body_box, result>>

\* 2'. a detector raises: the outer except returns the failure dict.
DetectRaises ==
    /\ pc = "detect"
    /\ pc' = "done"
    /\ result' = Failure("detector error")
    /\ ran' = Append(ran, "detect")
    /\ UNCHANGED <<mp_api, fs, rq, lp, fn, selected_face_id, img_loaded, detected, all_faces, face_box,
                   full_img_rgba, body_mask, fi, body_box>>

\* Mutant of NoFace: the empty list is not checked and step 5 is reached.
NoFace_FallsThrough ==
    /\ pc = "faces"
    /\ Len(all_faces) = 0
    /\ pc' = "bg"
    /\ UNCHANGED <<mp_api, fs, rq, lp, fn, selected_face_id, img_loaded, detected, all_faces,
                   face_box, full_img_rgba, body_mask, fi, body_box, result,
                   ran>>

\* if len(all_faces) == 0: return no_face_detected
NoFace ==
    /\ pc = "faces"
    /\ Len(all_faces) = 0
    /\ pc' = "done"
    /\ result' = Failure("no_face_detected")
    /\ UNCHANGED <<mp_api, fs, rq, lp, fn, selected_face_id, img_loaded, detected, all_faces, face_box,
                   full_img_rgba, body_mask, fi, body_box, ran>>

\* 3. several faces and no selection: return the thumbnails.
MultiFace ==
    /\ pc = "faces"
    /\ Len(all_faces) > 1
    /\ selected_face_id = None_id
    /\ pc' = "done"
    /\ result' = [success |-> TRUE,
                  multiple_faces_detected |-> TRUE,
                  face_count |-> Len(all_faces),
                  faces |-> FaceThumbnails(all_faces),
                  face_thumbnail |-> Null,
                  body_no_bg |-> Null,
                  body_crop |-> Null,
                  face_box |-> Null,
                  body_box |-> Null]
    /\ UNCHANGED <<mp_api, fs, rq, lp, fn, selected_face_id, img_loaded, detected, all_faces, face_box,
                   full_img_rgba, body_mask, fi, body_box, ran>>

\* 4. pick the face to use.
SelectFace ==
    /\ pc = "faces"
    /\ Len(all_faces) > 0
    /\ ~(Len(all_faces) > 1 /\ selected_face_id = None_id)
    /\ face_box' = IF selected_face_id # None_id
                      /\ selected_face_id < Len(all_faces)
                   THEN all_faces[selected_face_id + 1]
                   ELSE all_faces[1]
    /\ pc' = "bg"
    /\ UNCHANGED <<mp_api, fs, rq, lp, fn, selected_face_id, img_loaded, detected, all_faces,
                   full_img_rgba, body_mask, fi, body_box, result, ran>>

\* 5. remove_background(img) returns (bgra, binary_mask) for a mask.
RemoveBackground ==
    /\ pc = "bg"
    /\ MEDIAPIPE_AVAILABLE
    /\ \E mask \in SegMasks :
         /\ full_img_rgba' = ApplyMask(mask)
         /\ body_mask' = mask
    /\ pc' = "occlude"
    /\ ran' = Append(ran, "segment")
    /\ UNCHANGED <<mp_api, fs, rq, lp, fn, selected_face_id, img_loaded, detected, all_faces, face_box,
                   fi, body_box, result>>

\* 5'. remove_background returns (None, None) without the legacy API, or
\* raises and the local except leaves both None.
RemoveBackgroundFails ==
    /\ pc = "bg"
    /\ pc' = "occlude"
    /\ ran' = Append(ran, "segment")
    /\ UNCHANGED <<mp_api, fs, rq, lp, fn, selected_face_id, img_loaded, detected, all_faces, face_box,
                   full_img_rgba, body_mask, fi, body_box, result>>

\* if len(all_faces) > 1 and selected_face_id is not None
\*    and full_img_rgba is not None
OcclusionWanted ==
    /\ Len(all_faces) > 1
    /\ selected_face_id # None_id
    /\ full_img_rgba # NoImage

\* 6. step 6 has nothing to do.
SkipOcclusion ==
    /\ pc = "occlude"
    /\ ~OcclusionWanted
    /\ pc' = "bounds"
    /\ UNCHANGED <<mp_api, fs, rq, lp, fn, selected_face_id, img_loaded, detected, all_faces, face_box,
                   full_img_rgba, body_mask, fi, body_box, result, ran>>

\* 6. remove_faces_except: copy the image, look for the selected face; with
\* none found the copy is returned as it is.
BeginRemoveFaces ==
    /\ pc = "occlude"
    /\ OcclusionWanted
    /\ IF SelectedIndex(selected_face_id, all_faces) = 0
       THEN pc' = "bounds" /\ fi' = 0
       ELSE pc' = "erase" /\ fi' = 1
    /\ ran' = Append(ran, "occlude")
    /\ UNCHANGED <<mp_api, fs, rq, lp, fn, selected_face_id, img_loaded, detected, all_faces, face_box,
                   full_img_rgba, body_mask, body_box, result>>

\* One iteration of "for face in all_faces"; after the last one the result
\* is returned to process_photo.
EraseStep ==
    /\ pc = "erase"
    /\ fi >= 1 /\ fi <= Len(all_faces)
    /\ LET face == all_faces[fi]
           selected_face == all_faces[SelectedIndex(selected_face_id, all_faces)]
       IN  full_img_rgba' =
               IF face.id = selected_face_id THEN full_img_rgba
               ELSE EraseOther(full_img_rgba, ApplyMask(body_mask), face,
                               CenterX(selected_face))
    /\ fi' = fi + 1
    /\ pc' = IF fi = Len(all_faces) THEN "bounds" ELSE "erase"
    /\ UNCHANGED <<mp_api, fs, rq, lp, fn, selected_face_id, img_loaded, detected, all_faces, face_box,
                   body_mask, body_box, result, ran>>

\* 7. body bounds: from the alpha channel after occlusion (several faces and
\* a selection), from the segmentation mask (one face), else none.
\* Mutant of BodyBoundsOf: the segmentation mask is used in every case.
BodyBoundsOf_FromMask(faces, sel, rgba, mask) ==
    IF mask # NoImage /\ Len(faces) >= 1
    THEN get_body_bounds_from_mask(mask, BodyPadNum, BodyPadDen)
    ELSE Null

BodyBoundsOf(faces, sel, rgba, mask) ==
    IF Len(faces) > 1 /\ sel # None_id /\ rgba # NoImage
    THEN get_body_bounds_from_mask(AlphaOf(rgba), BodyPadNum, BodyPadDen)
    ELSE IF Len(faces) = 1 /\ mask # NoImage
    THEN get_body_bounds_from_mask(mask, BodyPadNum, BodyPadDen)
    ELSE Null

BodyBounds ==
    /\ pc = "bounds"
    /\ body_box' = BodyBoundsOf(all_faces, selected_face_id, full_img_rgba,
                                body_mask)
    /\ pc' = "render"
    /\ ran' = Append(ran, "bounds")
    /\ UNCHANGED <<mp_api, fs, rq, lp, fn, selected_face_id, img_loaded, detected, all_faces, face_box,
                   full_img_rgba, body_mask, fi, result>>

\* Mutant of Rendered: the body images are made only under the face
\* thumbnail's "if face_img.size > 0".
Rendered_BodyUnderFace(faces, sel, face, rgba, box) ==
    [success |-> TRUE,
     multiple_faces_detected |-> FALSE,
     face_count |-> Len(faces),
     selected_face_id |-> sel,
     face_box |-> face,
     body_box |-> box,
     face_thumbnail |-> FaceThumbnailOf(rgba, face),
     body_crop |-> IF FaceThumbnailOf(rgba, face) = Null THEN Null
                   ELSE BodyCropOf(box),
     body_no_bg |-> IF FaceThumbnailOf(rgba, face) = Null THEN Null
                    ELSE BodyNoBgOf(rgba, box)]

\* The success dict of the terminal path.
Rendered(faces, sel, face, rgba, box) ==
    [success |-> TRUE,
     multiple_faces_detected |-> FALSE,
     face_count |-> Len(faces),
     selected_face_id |-> sel,
     face_box |-> face,
     body_box |-> box,
     face_thumbnail |-> FaceThumbnailOf(rgba, face),
     body_crop |-> BodyCropOf(box),
     body_no_bg |-> BodyNoBgOf(rgba, box)]

\* 8. create the outputs and return; an exception of a resize reaches the
\* outer except.
Render ==
    /\ pc = "render"
    /\ result' = IF RenderRaises(full_img_rgba, body_box)
                 THEN Failure("resize error")
                 ELSE Rendered(all_faces, selected_face_id, face_box,
                               full_img_rgba, body_box)
    /\ pc' = "done"
    /\ ran' = Append(ran, "render")
    /\ UNCHANGED <<mp_api, fs, rq, lp, fn, selected_face_id, img_loaded, detected, all_faces, face_box,
                   full_img_rgba, body_mask, fi, body_box>>

Next ==
    \/ Decode
    \/ Detect
    \/ DetectRaises
    \/ NoFace
    \/ MultiFace
    \/ SelectFace
    \/ RemoveBackground
    \/ RemoveBackgroundFails
    \/ SkipOcclusion
    \/ BeginRemoveFaces
    \/ EraseStep
    \/ BodyBounds
    \/ Render

Spec == Init /\ [][Next]_vars

(***************************************************************************)
(* Properties of process_photo.                                            *)
(***************************************************************************)
Done == pc = "done"
Stages == {ran[i] : i \in DOMAIN ran}
DetectorRaised == Done /\ result = Failure("detector error")
DetectionReturned == "detect" \in Stages /\ ~DetectorRaised
SelectionGiven == selected_face_id # None_id
SelectedIsCandidate == \E i \in DOMAIN all_faces : all_faces[i].id = selected_face_id
OtherFaces == {i \in DOMAIN all_faces : all_faces[i].id # selected_face_id}
Returned == Done /\ ran # <<>> /\ ran[Len(ran)] = "render"

\* The pixels that lie entirely inside the face box grown by 30% of its
\* width and height on every side and clipped to the image.
PaddedBoxPixels(face) ==
    {p \in Pixels :
        /\ p[1] * 100 * FacePadDen
             >= Max(0, FacePadDen * face.x - FacePadNum * face.width) * ImgW
        /\ (p[1] + 1) * 100 * FacePadDen
             <= Min(100 * FacePadDen,
                    FacePadDen * (face.x + face.width) + FacePadNum * face.width)
                * ImgW
        /\ p[2] * 100 * FacePadDen
             >= Max(0, FacePadDen * face.y - FacePadNum * face.height) * ImgH
        /\ (p[2] + 1) * 100 * FacePadDen
             <= Min(100 * FacePadDen,
                    FacePadDen * (face.y + face.height) + FacePadNum * face.height)
                * ImgH}

C2_IdsContiguous ==
    {all_faces[i].id : i \in DOMAIN all_faces} = 0 .. (Len(all_faces) - 1)

\* C3: with N >= 2 candidates and no selection the result is the selection
\* response: N entries in faces (as many as face_count), in non-increasing
\* confidence, with ids 0, 1, ..., N-1 in that order, and all artifacts null.
C3_SelectionResponse ==
    (Done /\ Len(all_faces) >= 2 /\ ~SelectionGiven)
    => /\ result.success
       /\ result.multiple_faces_detected = TRUE
       /\ result.face_count = Len(all_faces)
       /\ Len(result.faces) = Len(all_faces)
       /\ \A i \in DOMAIN result.faces : result.faces[i].id = i - 1
       /\ \A i, j \in DOMAIN result.faces :
            i < j => result.faces[i].confidence >= result.faces[j].confidence
       /\ result.face_thumbnail = Null /\ result.body_no_bg = Null
       /\ result.body_crop = Null /\ result.face_box = Null
       /\ result.body_box = Null

\* The padded face crop of step 8 and the body crop.
FaceCrop ==
    crop_to_box(ImgW, ImgH,
                add_padding_to_box(BoxOf(face_box), FacePadNum, FacePadDen))
BodyCrop == BodySource(body_box)

C5_NoFaceTerminal ==
    (DetectionReturned /\ Len(all_faces) = 0)
    => /\ pc \in {"faces", "done"}
       /\ Done => result = Failure("no_face_detected")
       /\ Cardinality({i \in DOMAIN ran : ran[i] = "detect"}) = 1
       /\ Stages \cap {"segment", "occlude", "bounds", "render"} = {}

C5_Witness ==
    /\ Done /\ DetectionReturned /\ Len(all_faces) = 0
    /\ detected # <<>>
    /\ result = Failure("no_face_detected")

\* C6: once a pixel of the RGBA image has alpha 0, no later step of the
\* request sets it back to a nonzero value.
C6_AlphaMonotonic ==
    [][full_img_rgba # NoImage
         => \A p \in Pixels :
              full_img_rgba[p].a = 0 => full_img_rgba'[p].a = 0]_vars

\* Two erasures overlapped on pixels that were opaque after segmentation.
C6_Witness ==
    /\ pc = "bounds" /\ fi > Len(all_faces)
    /\ \E i, j \in OtherFaces :
         /\ i < j
         /\ \E p \in ErasedPixels(all_faces[i],
                        CenterX(all_faces[SelectedIndex(selected_face_id,
                                                        all_faces)]))
                     \cap
                     ErasedPixels(all_faces[j],
                        CenterX(all_faces[SelectedIndex(selected_face_id,
                                                        all_faces)])) :
              body_mask[p] # 0 /\ full_img_rgba[p].a = 0
         /\ \E p \in ErasedPixels(all_faces[i],
                        CenterX(all_faces[SelectedIndex(selected_face_id,
                                                        all_faces)]))
                     \
                     ErasedPixels(all_faces[j],
                        CenterX(all_faces[SelectedIndex(selected_face_id,
                                                        all_faces)])) :
              body_mask[p] # 0 /\ full_img_rgba[p].a = 0

\* C7 (as claimed): when segmentation is unavailable or fails the request
\* succeeds with body_no_bg and body_crop null and a face thumbnail.
C7_DegradeKeepsFace ==
    (Returned /\ full_img_rgba = NoImage)
    => /\ result.success
       /\ result.body_no_bg = Null
       /\ result.body_crop = Null
       /\ result.face_thumbnail # Null

\* C8 (as claimed): a request fails only when no face was detected or the
\* image could not be decoded.
C8_FailureOnlyNoFaceOrDecode ==
    (Done /\ ~result.success)
    => result.error \in {"no_face_detected", "Failed to load image"}

NumRequests == 2
Requests == 1 .. NumRequests

Images == {"no_face", "one_face", "two_faces"}
Absent == "absent"

\* os.path.join(TEMP_DIR, f'input_{os.getpid()}.jpg'): the process id is the
\* same for every request thread of the server.
TempInput(r) == "input_pid.jpg"
DebugInput == "debug_detection_input.jpg"
DebugResult == "debug_detection_result.jpg"
FileNames == {TempInput(r) : r \in Requests} \cup {DebugInput, DebugResult}

\* What process_photo returns for a decoded image, temp-file errors aside.
OutcomeOf(image) ==
    IF image = "no_face" THEN "no_face_detected"
    ELSE IF image = "two_faces" THEN "select_face"
    ELSE "artifacts"

InitConc ==
    /\ mp_api = "legacy"
    /\ pc = "start"
    /\ selected_face_id = None_id
    /\ img_loaded = FALSE
    /\ detected = <<>>
    /\ all_faces = <<>>
    /\ face_box = Null
    /\ full_img_rgba = NoImage
    /\ body_mask = NoImage
    /\ fi = 0
    /\ body_box = Null
    /\ result = Null
    /\ ran = <<>>
    /\ fs = [f \in FileNames |-> Absent]
    /\ rq = [r \in Requests |->
                [pc |-> "idle", image |-> "none", decoded |-> "none",
                 outcome |-> "none", result |-> "none", wrote |-> {}]]
    /\ lp = <<>>
    /\ fn = <<>>

\* analyze_photo receives a request and calls process_photo.
Submit(r) ==
    /\ rq[r].pc \in {"idle", "done"}
    /\ \E image \in Images :
         rq' = [rq EXCEPT ![r] = [pc |-> "save", image |-> image,
                                  decoded |-> "none", outcome |-> "none",
                                  result |-> "none", wrote |-> {}]]
    /\ UNCHANGED <<fs, pipeVars, lp, fn>>

\* img_pil.save(temp_input)
SaveInput(r) ==
    /\ rq[r].pc = "save"
    /\ fs' = [fs EXCEPT ![TempInput(r)] = rq[r].image]
    /\ rq' = [rq EXCEPT ![r].pc = "load",
                        ![r].wrote = @ \cup {TempInput(r)}]
    /\ UNCHANGED <<pipeVars, lp, fn>>

\* img = cv2.imread(temp_input); None raises ValueError
LoadInput(r) ==
    /\ rq[r].pc = "load"
    /\ IF fs[TempInput(r)] = Absent
       THEN rq' = [rq EXCEPT ![r].pc = "except_check",
                             ![r].outcome = "Failed to load image"]
       ELSE rq' = [rq EXCEPT ![r].pc = "detect",
                             ![r].decoded = fs[TempInput(r)]]
    /\ UNCHANGED <<fs, pipeVars, lp, fn>>

\* The debug images are written, faces are detected and the artifacts made;
\* what is returned waits for the cleanup.
Analyse(r) ==
    /\ rq[r].pc = "detect"
    /\ fs' = [fs EXCEPT ![DebugInput] = rq[r].decoded,
                        ![DebugResult] = IF rq[r].decoded = "no_face"
                                         THEN @ ELSE rq[r].decoded]
    /\ rq' = [rq EXCEPT ![r].pc = "check",
                        ![r].outcome = OutcomeOf(rq[r].decoded),
                        ![r].wrote = @ \cup (IF rq[r].decoded = "no_face"
                                             THEN {DebugInput}
                                             ELSE {DebugInput, DebugResult})]
    /\ UNCHANGED <<pipeVars, lp, fn>>

\* if os.path.exists(temp_input) and is_base64, on the three return paths
CleanupCheck(r) ==
    /\ rq[r].pc = "check"
    /\ rq' = [rq EXCEPT ![r].pc = IF fs[TempInput(r)] # Absent
                                  THEN "remove" ELSE "return"]
    /\ UNCHANGED <<fs, pipeVars, lp, fn>>

\* os.remove(temp_input); FileNotFoundError reaches the except clause
CleanupRemove(r) ==
    /\ rq[r].pc = "remove"
    /\ IF fs[TempInput(r)] # Absent
       THEN /\ fs' = [fs EXCEPT ![TempInput(r)] = Absent]
            /\ rq' = [rq EXCEPT ![r].pc = "return"]
       ELSE /\ rq' = [rq EXCEPT ![r].pc = "except_check",
                                ![r].outcome = "FileNotFoundError"]
            /\ UNCHANGED fs
    /\ UNCHANGED <<pipeVars, lp, fn>>

\* except Exception: if os.path.exists(temp_input) and is_base64
ExceptCheck(r) ==
    /\ rq[r].pc = "except_check"
    /\ rq' = [rq EXCEPT ![r].pc = IF fs[TempInput(r)] # Absent
                                  THEN "except_remove" ELSE "return"]
    /\ UNCHANGED <<fs, pipeVars, lp, fn>>

\* os.remove in the except clause; an error here leaves process_photo and
\* analyze_photo answers with it
ExceptRemove(r) ==
    /\ rq[r].pc = "except_remove"
    /\ IF fs[TempInput(r)] # Absent
       THEN /\ fs' = [fs EXCEPT ![TempInput(r)] = Absent]
            /\ rq' = [rq EXCEPT ![r].pc = "return"]
       ELSE /\ rq' = [rq EXCEPT ![r].pc = "return",
                                ![r].outcome = "FileNotFoundError"]
            /\ UNCHANGED fs
    /\ UNCHANGED <<pipeVars, lp, fn>>

Return(r) ==
    /\ rq[r].pc = "return"
    /\ rq' = [rq EXCEPT ![r].pc = "done", ![r].result = rq[r].outcome]
    /\ UNCHANGED <<fs, pipeVars, lp, fn>>

NextConc ==
    \E r \in Requests :
        \/ Submit(r)
        \/ SaveInput(r)
        \/ LoadInput(r)
        \/ Analyse(r)
        \/ CleanupCheck(r)
        \/ CleanupRemove(r)
        \/ ExceptCheck(r)
        \/ ExceptRemove(r)
        \/ Return(r)

SpecConc == InitConc /\ [][NextConc]_vars

\* C10: concurrent requests do not share a temporary input file: under every
\* interleaving each request decodes the image it wrote itself and returns
\* what it returns when it runs alone.
C10_OwnImageOwnResult ==
    \A r \in Requests :
         /\ rq[r].decoded # "none" => rq[r].decoded = rq[r].image
         /\ rq[r].pc = "done"
              => rq[r].result = OutcomeOf(rq[r].image)

\* C11: when a base64 request returns, on every exit path, no file that the
\* request wrote to disk (temporary input, detection debug images) still
\* exists.  Stated for a request that runs alone, so that every file found
\* was written by it.
C11_NoFileLeft ==
    \A r \in Requests :
        (rq[r].pc = "done" /\ \A q \in Requests \ {r} : rq[q].pc = "idle")
        => \A f \in rq[r].wrote : fs[f] = Absent

(***************************************************************************)
(* SpecLpips: the threads of the server calling get_lpips_model.  lp holds *)
(* the global _lpips_model (0 is None, n > 0 the n-th LPIPS object         *)
(* constructed), the number of constructions, whether the lpips package    *)
(* can be imported, and each thread's position, the object it constructed  *)
(* and what its last call returned.                                        *)
(***************************************************************************)
Threads == 1 .. NumRequests
NoModel == 0

\* No process_photo call is in progress.
PipeIdle ==
    /\ pc = "start"
    /\ selected_face_id = None_id
    /\ img_loaded = FALSE
    /\ detected = <<>>
    /\ all_faces = <<>>
    /\ face_box = Null
    /\ full_img_rgba = NoImage
    /\ body_mask = NoImage
    /\ fi = 0
    /\ body_box = Null
    /\ result = Null
    /\ ran = <<>>

InitLpips ==
    /\ PipeIdle
    /\ mp_api = "legacy"
    /\ fs = <<>>
    /\ rq = <<>>
    /\ fn = <<>>
    /\ \E installed \in BOOLEAN :
         lp = [installed |-> installed, model |-> NoModel, loads |-> 0,
               th |-> [t \in Threads |->
                         [pc |-> "idle", made |-> NoModel, ret |-> NoModel]]]

\* a request handler calls get_lpips_model()
CallLpips(t) ==
    /\ lp.th[t].pc \in {"idle", "done"}
    /\ lp' = [lp EXCEPT !.th[t].pc = "test"]
    /\ UNCHANGED <<fs, rq, fn, pipeVars>>

\* if _lpips_model is None:
TestLpips(t) ==
    /\ lp.th[t].pc = "test"
    /\ lp' = [lp EXCEPT !.th[t].pc = IF lp.model = NoModel
                                     THEN "import" ELSE "return"]
    /\ UNCHANGED <<fs, rq, fn, pipeVars>>

\* import lpips; except ImportError: return None
ImportLpips(t) ==
    /\ lp.th[t].pc = "import"
    /\ lp' = IF lp.installed
             THEN [lp EXCEPT !.th[t].pc = "construct"]
             ELSE [lp EXCEPT !.th[t].pc = "done", !.th[t].ret = NoModel]
    /\ UNCHANGED <<fs, rq, fn, pipeVars>>

\* lpips.LPIPS(net='alex'): the right-hand side of the assignment
ConstructLpips(t) ==
    /\ lp.th[t].pc = "construct"
    /\ lp' = [lp EXCEPT !.loads = @ + 1,
                        !.th[t].made = lp.loads + 1,
                        !.th[t].pc = "assign"]
    /\ UNCHANGED <<fs, rq, fn, pipeVars>>

\* _lpips_model = <the object constructed>
AssignLpips(t) ==
    /\ lp.th[t].pc = "assign"
    /\ lp' = [lp EXCEPT !.model = lp.th[t].made, !.th[t].pc = "return"]
    /\ UNCHANGED <<fs, rq, fn, pipeVars>>

\* return _lpips_model
ReturnLpips(t) ==
    /\ lp.th[t].pc = "return"
    /\ lp' = [lp EXCEPT !.th[t].pc = "done", !.th[t].ret = lp.model]
    /\ UNCHANGED <<fs, rq, fn, pipeVars>>

NextLpips ==
    \E t \in Threads :
        \/ CallLpips(t)
        \/ TestLpips(t)
        \/ ImportLpips(t)
        \/ ConstructLpips(t)
        \/ AssignLpips(t)
        \/ ReturnLpips(t)

SpecLpips == InitLpips /\ [][NextLpips]_vars

\* C12: concurrent first calls of get_lpips_model construct the model at
\* most once.
C12_LoadedOnce == lp.loads <= 1

(***************************************************************************)
(* SpecFn: the pure functions of the module applied to inputs drawn from   *)
(* bounded sets.  fn records the function called, its arguments and what   *)
(* it returned; a behaviour is one call.                                   *)
(***************************************************************************)
InitFn ==
    /\ PipeIdle
    /\ mp_api \in Apis
    /\ fs = <<>>
    /\ rq = <<>>
    /\ lp = <<>>
    /\ fn = [op |-> "none"]

\* Detections the two MediaPipe models may report around one place: the
\* centre of MergeC is within 10 of those of MergeA and MergeB, which are 16
\* apart.
MergeA == Face(10, 10, 20, 30, 60)
MergeB == Face(26, 12, 20, 30, 70)
MergeC == Face(18, 11, 20, 30, 90)
MergePool == {MergeA, MergeB, MergeC, FaceRight, FaceFaint}
MergeSeqs ==
    {q \in UNION {[1 .. n -> MergePool] : n \in 0 .. MaxFaces} :
        \A i, j \in DOMAIN q : i # j => q[i] # q[j]}

\* The candidates of a list without their ids.
Boxes(faces) == [i \in DOMAIN faces |-> [faces[i] EXCEPT !.id = 0]]

\* the merge loop of detect_all_faces_mediapipe run on dets
CallMerge ==
    /\ fn.op = "none"
    /\ \E dets \in MergeSeqs :
         fn' = [op |-> "merge", dets |-> dets, out |-> MergeAll(<<>>, dets)]
    /\ UNCHANGED <<fs, rq, lp, pipeVars>>

\* Valid boxes in whole percent and padding fractions pn / pd.
PadEdges == {0, 2, 10, 50, 70, 97, 100}
PadSizes == {0, 3, 20, 30, 50, 100}
PadBoxes ==
    {[x |-> x, y |-> y, width |-> w, height |-> h,
      xd |-> 1, yd |-> 1, px |-> FALSE] :
        x \in PadEdges, y \in PadEdges, w \in PadSizes, h \in PadSizes}
ValidBox(b) ==
    /\ 0 <= b.x /\ 0 <= b.y /\ 0 <= b.width /\ 0 <= b.height
    /\ b.x + b.width <= 100 * b.xd
    /\ b.y + b.height <= 100 * b.yd
Paddings ==
    {<<0, 1>>, <<5, 100>>, <<15, 100>>, <<3, 10>>, <<1, 2>>, <<1, 1>>, <<2, 1>>}
\* Image sizes (width, height) the crops are taken from.
CropSizes == {<<1, 1>>, <<ImgW, ImgH>>, <<ImgH, ImgW>>, <<640, 480>>}

\* add_padding_to_box(box, padding_percent)
CallPad ==
    /\ fn.op = "none"
    /\ \E box \in {b \in PadBoxes : ValidBox(b)}, p \in Paddings :
         fn' = [op |-> "add_padding_to_box", box |-> box,
                pn |-> p[1], pd |-> p[2],
                out |-> add_padding_to_box(box, p[1], p[2])]
    /\ UNCHANGED <<fs, rq, lp, pipeVars>>

\* crop_to_box(image, add_padding_to_box(box, padding_percent))
CallPadCrop ==
    /\ fn.op = "none"
    /\ \E box \in {b \in PadBoxes : ValidBox(b)}, p \in Paddings,
          size \in CropSizes :
         fn' = [op |-> "crop_to_box", w |-> size[1], h |-> size[2],
                box |-> add_padding_to_box(box, p[1], p[2]),
                out |-> crop_to_box(size[1], size[2],
                                    add_padding_to_box(box, p[1], p[2]))]
    /\ UNCHANGED <<fs, rq, lp, pipeVars>>

\* Masks: those of the segmentation model and every mask with one nonzero
\* pixel.
OnePixel(q) == [p \in Pixels |-> IF p = q THEN 255 ELSE 0]
FnMasks == SegMasks \cup {OnePixel(q) : q \in Pixels}
\* Sizes (width, height) of the masks given by their bounding rectangle.
MaskSizes == {<<ImgW, ImgH>>, <<11, 13>>}

\* get_body_bounds_from_mask(mask, 0.05)
CallBodyBounds ==
    /\ fn.op = "none"
    /\ \E mask \in FnMasks :
         fn' = [op |-> "get_body_bounds_from_mask", mask |-> mask,
                out |-> get_body_bounds_from_mask(mask, BodyPadNum,
                                                  BodyPadDen)]
    /\ UNCHANGED <<fs, rq, lp, pipeVars>>

\* get_body_bounds_from_mask(mask, 0.05) for a w x h mask whose nonzero
\* pixels have the bounding rectangle (x, y, bw, bh)
CallBoundsOfRect ==
    /\ fn.op = "none"
    /\ \E size \in MaskSizes :
         \E x \in 0 .. size[1] - 1, y \in 0 .. size[2] - 1 :
           \E bw \in 1 .. size[1] - x, bh \in 1 .. size[2] - y :
              fn' = [op |-> "bounds_of_rect", w |-> size[1], h |-> size[2],
                     x |-> x, y |-> y, bw |-> bw, bh |-> bh,
                     out |-> BoundsOfRect(size[1], size[2], x, y, bw, bh,
                                          BodyPadNum, BodyPadDen)]
    /\ UNCHANGED <<fs, rq, lp, pipeVars>>

(***************************************************************************)
(* compare_identity.  A similarity is an integer number of 1/100000; the   *)
(* inputs avoid the ties of round(similarity, 4).                          *)
(***************************************************************************)
HighAbove == 60000
MediumAbove == 45000
LowAbove == 30000
IdentityPadNum == 15
IdentityPadDen == 100

\* round(similarity, 4)
Round4(s) == ((s + 5) \div 10) * 10

\* Mutant of Classify: the medium band includes its lower edge.
Classify_MediumInclusive(s) ==
    IF s > HighAbove
    THEN [same_person |-> TRUE, confidence |-> "high",
          interpretation |-> "very_similar"]
    ELSE IF s >= MediumAbove
    THEN [same_person |-> TRUE, confidence |-> "medium",
          interpretation |-> "similar"]
    ELSE IF s > LowAbove
    THEN [same_person |-> FALSE, confidence |-> "low",
          interpretation |-> "somewhat_similar"]
    ELSE [same_person |-> FALSE, confidence |-> "high",
          interpretation |-> "different"]

\* The if / elif chain on similarity.
Classify(s) ==
    IF s > HighAbove
    THEN [same_person |-> TRUE, confidence |-> "high",
          interpretation |-> "very_similar"]
    ELSE IF s > MediumAbove
    THEN [same_person |-> TRUE, confidence |-> "medium",
          interpretation |-> "similar"]
    ELSE IF s > LowAbove
    THEN [same_person |-> FALSE, confidence |-> "low",
          interpretation |-> "somewhat_similar"]
    ELSE [same_person |-> FALSE, confidence |-> "high",
          interpretation |-> "different"]

\* The JSON answers of compare_identity.
IdentityResponse(s) ==
    [status |-> 200, success |-> TRUE, similarity |-> Round4(s),
     same_person |-> Classify(s).same_person,
     confidence |-> Classify(s).confidence,
     interpretation |-> Classify(s).interpretation]
IdentityError(status, error) ==
    [status |-> status, success |-> FALSE, error |-> error]

\* Similarities: the ends of the range and the neighbourhood of each
\* threshold, without the ties of round(similarity, 4).
Sims ==
    {-100000, 0, 100000}
    \cup {t + d : t \in {HighAbove, MediumAbove, LowAbove},
                  d \in {e \in -14 .. 14 : e % 10 # 5}}
SimSamples == {20000, 45004, 70000}

\* image[y1:y2, x1:x2] for a quadrant name; other names leave the image.
QuadrantRect(q, w, h) ==
    LET mid_w == w \div 2
        mid_h == h \div 2
    IN  IF q = "top-left" THEN [x1 |-> 0, x2 |-> mid_w, y1 |-> 0, y2 |-> mid_h]
        ELSE IF q = "top-right"
        THEN [x1 |-> mid_w, x2 |-> w, y1 |-> 0, y2 |-> mid_h]
        ELSE IF q = "bottom-left"
        THEN [x1 |-> 0, x2 |-> mid_w, y1 |-> mid_h, y2 |-> h]
        ELSE IF q = "bottom-right"
        THEN [x1 |-> mid_w, x2 |-> w, y1 |-> mid_h, y2 |-> h]
        ELSE [x1 |-> 0, x2 |-> w, y1 |-> 0, y2 |-> h]

\* The crop to the detected face with 15% padding, in a w x h image.
FaceCropRect(face, w, h) ==
    LET pn == IdentityPadNum
        pd == IdentityPadDen
    IN  [x1 |-> Trunc(Max(0, pd * face.x - pn * face.width) * w, 100 * pd),
         x2 |-> Trunc(Min(100 * pd, pd * face.x + (pd + pn) * face.width) * w,
                      100 * pd),
         y1 |-> Trunc(Max(0, pd * face.y - pn * face.height) * h, 100 * pd),
         y2 |-> Trunc(Min(100 * pd, pd * face.y + (pd + pn) * face.height) * h,
                      100 * pd)]

\* What compare_identity does with one image: im.quadrant is the quadrant
\* asked for, im.face what detect_face_mediapipe returns on the supplied
\* region, im.df_found whether DeepFace's own detector finds a face,
\* im.ok whether DeepFace returns an embedding.  The result says which
\* pixels the embedding is computed on and whether a step raised.
EmbedImage(im) ==
    LET q == QuadrantRect(im.quadrant, ImgW, ImgH)
        w == CropW(q)
        h == CropH(q)
        face_detected == im.face # Null
        crop == IF face_detected THEN FaceCropRect(im.face, w, h)
                ELSE [x1 |-> 0, x2 |-> w, y1 |-> 0, y2 |-> h]
    IN  IF CropEmpty(crop)
        THEN [raised |-> TRUE, emb |-> FALSE, on |-> "nothing", crop |-> crop,
              face_detected |-> face_detected]
        ELSE [raised |-> FALSE,
              emb |-> im.ok,
              on |-> IF face_detected THEN "face_crop"
                     ELSE IF im.df_found THEN "deepface_face"
                     ELSE "full_region",
              crop |-> crop,
              face_detected |-> face_detected]

IdentityFaces == {Null, FaceLeft, FaceTiny}
IdentityImages ==
    [quadrant : {"none", "top-left", "bottom-right", "centre"},
     face : IdentityFaces, df_found : BOOLEAN, ok : BOOLEAN]

\* POST /compare-identity with embedding1 and embedding2
CompareEmbeddings ==
    /\ fn.op = "none"
    /\ \E s \in Sims :
         fn' = [op |-> "compare_identity", kind |-> "embeddings", s |-> s,
                out |-> IdentityResponse(s)]
    /\ UNCHANGED <<fs, rq, lp, pipeVars>>

\* POST /compare-identity with image1 and image2
CompareImages ==
    /\ fn.op = "none"
    /\ \E im1 \in IdentityImages, im2 \in IdentityImages, s \in SimSamples :
         LET e1 == EmbedImage(im1)
             e2 == EmbedImage(im2)
         IN  fn' = [op |-> "compare_identity", kind |-> "images", s |-> s,
                    im |-> <<im1, im2>>, used |-> <<e1, e2>>,
                    out |-> IF e1.raised \/ e2.raised
                            THEN IdentityError(500, "exception")
                            ELSE IF ~e1.emb \/ ~e2.emb
                            THEN IdentityError(500,
                                   "Failed to extract embeddings from images")
                            ELSE IdentityResponse(s)]
    /\ UNCHANGED <<fs, rq, lp, pipeVars>>

\* POST /compare-identity without a body or without either pair of fields
CompareNothing ==
    /\ fn.op = "none"
    /\ \E error \in {"Missing request body",
                      "Must provide either (embedding1, embedding2) or (image1, image2)"} :
         fn' = [op |-> "compare_identity", kind |-> "neither",
                out |-> IdentityError(400, error)]
    /\ UNCHANGED <<fs, rq, lp, pipeVars>>

(***************************************************************************)
(* remove_faces_except as a function of its arguments.                     *)
(***************************************************************************)
\* The second loop "for face in all_faces" from position i on, writing into
\* the private copy result.
RECURSIVE EraseLoop(_, _, _, _, _, _)
EraseLoop(result_img, original, faces, i, keep_face_id, selected_center_x) ==
    IF i > Len(faces) THEN result_img
    ELSE EraseLoop(
            IF faces[i].id = keep_face_id THEN result_img
            ELSE EraseOther(result_img, original, faces[i], selected_center_x),
            original, faces, i + 1, keep_face_id, selected_center_x)

\* Mutant of remove_faces_except: without "if selected_face is None: return
\* result", the selected centre taken as column 0.
remove_faces_except_NoLookup(image, keep_face_id, faces) ==
    IF Len(faces) <= 1 THEN image
    ELSE EraseLoop(image, image, faces, 1, keep_face_id,
                   IF SelectedIndex(keep_face_id, faces) = 0 THEN 0
                   ELSE CenterX(faces[SelectedIndex(keep_face_id, faces)]))

\* remove_faces_except(image, keep_face_id, all_faces): what it returns.
remove_faces_except(image, keep_face_id, faces) ==
    IF Len(faces) <= 1 THEN image
    ELSE IF SelectedIndex(keep_face_id, faces) = 0 THEN image
    ELSE EraseLoop(image, image, faces, 1, keep_face_id,
                   CenterX(faces[SelectedIndex(keep_face_id, faces)]))

\* The buffer passed in, after the call: every write goes to
\* result = image.copy().
ImageAfterCall(image, keep_face_id, faces) == image

FaceBelow == Face(42, 55, 20, 30, 50)    \* its centre column is FaceMid's
FaceNear == Face(34, 50, 20, 30, 50)     \* its centre is one column to the left
RfePool == {FaceLeft, FaceRight, FaceMid, FaceBelow, FaceNear}
RfeLists ==
    {Renumber(d) : d \in {e \in UNION {[1 .. n -> RfePool] : n \in 0 .. 3} :
                              \A i, j \in DOMAIN e : i # j => e[i] # e[j]}}

\* remove_faces_except(image, keep_face_id, all_faces)
CallRemoveFaces ==
    /\ fn.op = "none"
    /\ \E mask \in SegMasks, faces \in RfeLists, keep \in 0 .. MaxFaces :
         fn' = [op |-> "remove_faces_except",
                image |-> ApplyMask(mask), keep_face_id |-> keep,
                faces |-> faces,
                image_after |-> ImageAfterCall(ApplyMask(mask), keep, faces),
                out |-> remove_faces_except(ApplyMask(mask), keep, faces)]
    /\ UNCHANGED <<fs, rq, lp, pipeVars>>

\* detect_all_faces_mediapipe(image) under each state of the import block
CallDetect ==
    /\ fn.op = "none"
    /\ \E det \in DetSeqs, cv \in CvSeqs :
         fn' = [op |-> "detect_all_faces_mediapipe", det |-> det, cv |-> cv,
                accepted |-> PrimaryAccepted(det),
                ran_cv |-> CascadeRuns(det),
                cv_out |-> detect_all_faces_opencv(cv),
                out |-> detect_all_faces_mediapipe(det, cv)]
    /\ UNCHANGED <<fs, rq, lp, pipeVars>>

\* the resize of a bw x bh body crop in step 8 of process_photo
CallResize ==
    /\ fn.op = "none"
    /\ \E bw \in ResizeSizes, bh \in ResizeSizes :
         fn' = [op |-> "resize", bw |-> bw, bh |-> bh,
                raises |-> ResizeRaises(bw, bh),
                out |-> ResizeDims(bw, bh)]
    /\ UNCHANGED <<fs, rq, lp, pipeVars>>

(***************************************************************************)
(* compare_lpips.  A bbox is <<ymin, xmin, ymax, xmax>> in quarters of the *)
(* image (q stands for q / 4); a size is <<width, height>>.                *)
(***************************************************************************)
BboxDen == 4

\* Length of the slice [a:b] of an axis of n elements, a >= 0: a negative
\* b counts from the end.
SliceLen(a, b, n) ==
    LET stop == IF b < 0 THEN Max(0, b + n) ELSE Min(b, n)
    IN  Max(0, stop - Min(a, n))

\* crop_tensor_to_bbox(img_tensor, bbox, img_size): the [H, W] of the tensor
\* returned and whether it is img_tensor itself.
crop_tensor_to_bbox(bbox, img_size) ==
    LET width == img_size[1]
        height == img_size[2]
        y1 == Max(0, Trunc(bbox[1] * height, BboxDen))
        x1 == Max(0, Trunc(bbox[2] * width, BboxDen))
        y2 == Min(height, Trunc(bbox[3] * height, BboxDen))
        x2 == Min(width, Trunc(bbox[4] * width, BboxDen))
        ch == SliceLen(y1, y2, height)
        cw == SliceLen(x1, x2, width)
    IN  IF ch = 0 \/ cw = 0
        THEN [original |-> TRUE, shape |-> <<height, width>>]
        ELSE [original |-> FALSE, shape |-> <<ch, cw>>]

\* F.interpolate(t, size=(resize_to, resize_to)) when resize_to is given
\* (0 stands for an absent resize_to).
ResizeTo(shape, resize_to) ==
    IF resize_to # 0 THEN <<resize_to, resize_to>> ELSE shape

BboxCoords == {-2, -1, 0, 1, 2, 4, 5}
Bboxes == BboxCoords \X BboxCoords \X BboxCoords \X BboxCoords
LpipsSizes == {<<8, 6>>, <<3, 5>>}
LpipsModes == {"bbox", "bbox_both"}

\* POST /lpips with image1, image2 and a bbox or bbox_both
CompareLpips ==
    /\ fn.op = "none"
    /\ \E available \in BOOLEAN, mode \in LpipsModes, bbox \in Bboxes,
          size1 \in LpipsSizes, size2 \in LpipsSizes, resize_to \in {0, 4} :
         LET full1 == [original |-> TRUE, shape |-> <<size1[2], size1[1]>>]
             c1 == IF mode = "bbox_both"
                   THEN crop_tensor_to_bbox(bbox, size1) ELSE full1
             c2 == crop_tensor_to_bbox(bbox, size2)
             s1 == ResizeTo(c1.shape, resize_to)
             s2 == ResizeTo(c2.shape, resize_to)
         IN  fn' = IF ~available
                   THEN [op |-> "compare_lpips", available |-> FALSE,
                         out |-> [status |-> 503, success |-> FALSE]]
                   ELSE [op |-> "compare_lpips", available |-> TRUE,
                         mode |-> mode, bbox |-> bbox,
                         size1 |-> size1, size2 |-> size2,
                         resize_to |-> resize_to,
                         crop1 |-> c1, crop2 |-> c2,
                         shape1 |-> s1,
                         shape2 |-> IF s1 # s2 THEN s1 ELSE s2,
                         out |-> [status |-> 200, success |-> TRUE,
                                  region |-> IF mode = "bbox_both"
                                             THEN "cropped_both"
                                             ELSE "cropped_img2"]]
    /\ UNCHANGED <<fs, rq, lp, pipeVars>>

NextFn ==
    \/ CallMerge
    \/ CallPad
    \/ CallPadCrop
    \/ CallBodyBounds
    \/ CallBoundsOfRect
    \/ CompareEmbeddings
    \/ CompareImages
    \/ CompareNothing
    \/ CallRemoveFaces
    \/ CallDetect
    \/ CallResize
    \/ CompareLpips

SpecFn == InitFn /\ [][NextFn]_vars

\* C13: the duplicate-merge step is idempotent: the list it produced, fed
\* through the merge step again, comes back the same (ids aside).
C13_MergeIdempotent ==
    fn.op = "merge"
    => Boxes(MergeAll(<<>>, fn.out)) = Boxes(fn.out)

\* C14: for every valid box and padding fraction >= 0 the box returned by
\* add_padding_to_box has 0 <= x, 0 <= y, x + width <= 100 and
\* y + height <= 100.
C14_PaddedBoxInImage ==
    fn.op = "add_padding_to_box"
    => /\ 0 <= fn.out.x
       /\ 0 <= fn.out.y
       /\ fn.out.x + fn.out.width <= 100 * fn.out.xd
       /\ fn.out.y + fn.out.height <= 100 * fn.out.yd

\* A padded box cut back at the left edge and at the bottom edge.
C14_Witness ==
    /\ fn.op = "add_padding_to_box"
    /\ fn.pn > 0 /\ fn.box.width > 0 /\ fn.box.height > 0
    /\ fn.out.x = 0 /\ fn.box.x * fn.pd < fn.box.width * fn.pn
    /\ fn.out.y + fn.out.height = 100 * fn.out.yd
    /\ fn.out.height < fn.box.height * fn.pd + 2 * fn.box.height * fn.pn

\* C15: the far edge of the padded box is never beyond the original far
\* edge plus one padding amount: margin lost at the left or top edge is not
\* given to the opposite side.
C15_NoRedistribution ==
    fn.op = "add_padding_to_box"
    => /\ fn.out.x + fn.out.width
            <= (fn.box.x + fn.box.width) * fn.pd + fn.box.width * fn.pn
       /\ fn.out.y + fn.out.height
            <= (fn.box.y + fn.box.height) * fn.pd + fn.box.height * fn.pn

\* C16: crop_to_box of a padded valid box is a pixel region of width and
\* height >= 0 inside the image: 0 <= x <= x2 <= w and 0 <= y <= y2 <= h.
C16_CropInsideImage ==
    fn.op = "crop_to_box"
    => /\ 0 <= fn.out.x1 /\ fn.out.x1 <= fn.out.x2 /\ fn.out.x2 <= fn.w
       /\ 0 <= fn.out.y1 /\ fn.out.y1 <= fn.out.y2 /\ fn.out.y2 <= fn.h

\* A crop of a box that padding pushed against the right edge, reaching the
\* last pixel column, and an empty crop.
C16_Witness ==
    /\ fn.op = "crop_to_box"
    /\ fn.box.x + fn.box.width = 100 * fn.box.xd
    /\ fn.box.x > 0
    /\ fn.out.x2 = fn.w /\ fn.out.x1 < fn.out.x2
    /\ fn.out.y1 = fn.out.y2

\* The nonzero pixels of the mask of a get_body_bounds_from_mask call.
NonZero == {p \in Pixels : fn.mask[p] # 0}

\* C17: get_body_bounds_from_mask returns None for a mask without a nonzero
\* pixel; for a mask whose only nonzero pixel is (px, py) the box
\* x = px / w * 100, y = py / h * 100, width = 100 / w, height = 100 / h; and
\* for every non-empty mask a box with x + width <= 100 and
\* y + height <= 100.
C17_BoundsFromMask ==
    /\ fn.op = "get_body_bounds_from_mask"
         => /\ NonZero = {} => fn.out = Null
            /\ \A q \in Pixels :
                 NonZero = {q}
                 => /\ fn.out # Null
                    /\ fn.out.x * ImgW = 100 * q[1] * fn.out.xd
                    /\ fn.out.y * ImgH = 100 * q[2] * fn.out.yd
                    /\ fn.out.width * ImgW = 100 * fn.out.xd
                    /\ fn.out.height * ImgH = 100 * fn.out.yd
            /\ NonZero # {}
                 => /\ fn.out # Null
                    /\ ~SumOver100(fn.out.x, fn.out.width, fn.out.xd, fn.out.px)
                    /\ ~SumOver100(fn.out.y, fn.out.height, fn.out.yd,
                                   fn.out.px)
    /\ fn.op = "bounds_of_rect"
         => /\ ~SumOver100(fn.out.x, fn.out.width, fn.out.xd, fn.out.px)
            /\ ~SumOver100(fn.out.y, fn.out.height, fn.out.yd, fn.out.px)

\* A compare_identity call that came to a similarity.
Compared == fn.op = "compare_identity" /\ fn.out.success

\* C18: every similarity s falls in exactly one band: s > 0.60 same person,
\* high; 0.45 < s <= 0.60 same person, medium; 0.30 < s <= 0.45 different,
\* low; s <= 0.30 different, high.  same_person is true exactly when
\* s > 0.45.
C18_Bands ==
    Compared
    => /\ fn.s > 60000
            => fn.out.same_person /\ fn.out.confidence = "high"
       /\ (45000 < fn.s /\ fn.s <= 60000)
            => fn.out.same_person /\ fn.out.confidence = "medium"
       /\ (30000 < fn.s /\ fn.s <= 45000)
            => ~fn.out.same_person /\ fn.out.confidence = "low"
       /\ fn.s <= 30000
            => ~fn.out.same_person /\ fn.out.confidence = "high"
       /\ fn.out.same_person <=> fn.s > 45000

\* A similarity of exactly 0.45, on the edge between two bands.
C18_Witness ==
    /\ Compared /\ fn.s = 45000
    /\ ~fn.out.same_person /\ fn.out.confidence = "low"

\* C19: given raw images, an image in which no face is found is embedded
\* on the full supplied region and the answer carries faceDetected = false;
\* an image with a face is cropped to the face with 15% padding.
C19_NoFaceFlagged ==
    (Compared /\ fn.kind = "images")
    => \A i \in 1 .. 2 :
         /\ fn.im[i].face = Null
              => /\ fn.used[i].on = "full_region"
                 /\ "faceDetected" \in DOMAIN fn.out
                 /\ fn.out.faceDetected = FALSE
         /\ fn.im[i].face # Null
              => /\ fn.used[i].on = "face_crop"
                 /\ fn.used[i].crop
                      = FaceCropRect(fn.im[i].face,
                                     CropW(QuadrantRect(fn.im[i].quadrant,
                                                        ImgW, ImgH)),
                                     CropH(QuadrantRect(fn.im[i].quadrant,
                                                        ImgW, ImgH)))

\* C20: when process_photo is called with a selected_face_id on a photo with
\* N >= 2 surviving candidates and remove_faces_except is run, the candidate
\* returned as face_box (and used for the face thumbnail) is the one whose
\* id equals selected_face_id, which remove_faces_except keeps, and it is
\* none of the candidates remove_faces_except erases.
C20_FaceBoxIsKept ==
    (Done /\ Len(all_faces) >= 2 /\ SelectionGiven /\ "occlude" \in Stages
          /\ result.success)
    => /\ result.face_box.id = selected_face_id
       /\ \A i \in OtherFaces : all_faces[i] # result.face_box

\* A call of remove_faces_except with several candidates, one of them with
\* the id keep_face_id.
RfeKept ==
    /\ fn.op = "remove_faces_except"
    /\ Len(fn.faces) >= 2
    /\ SelectedIndex(fn.keep_face_id, fn.faces) # 0
RfeSelected == fn.faces[SelectedIndex(fn.keep_face_id, fn.faces)]
RfeOthers == {i \in DOMAIN fn.faces : fn.faces[i].id # fn.keep_face_id}
CenterY(face) == Trunc((2 * face.y + face.height) * ImgH, 200)
\* The body region erased for a non-selected face: the erased pixels below
\* the bottom of its padded face rectangle.
BodyRegion(face, selected_center_x) ==
    {p \in ErasedPixels(face, selected_center_x) : p[2] >= EraseFaceRect(face).y2}

\* C21: for a keep_face_id present in the candidate list, the pixel at the
\* centre of the selected face box keeps its input alpha and no body-erase
\* region contains the selected face's centre column.
C21_SelectedCentreKept ==
    RfeKept
    => /\ fn.out[<<CenterX(RfeSelected), CenterY(RfeSelected)>>].a
            = fn.image[<<CenterX(RfeSelected), CenterY(RfeSelected)>>].a
       /\ \A i \in RfeOthers :
            \A p \in BodyRegion(fn.faces[i], CenterX(RfeSelected)) :
                p[1] # CenterX(RfeSelected)

\* C22: after the merge loop has processed any sequence of detections, no
\* two candidates of the list have box centres within 10 percentage points
\* of each other on both axes, and every accepted detection is in the list
\* or gave way to a candidate of at least its confidence.
C22_Deduplicated ==
    fn.op = "merge"
    => /\ \A i, j \in DOMAIN fn.out :
            i # j => ~IsDuplicate(fn.out[i], fn.out[j])
       /\ \A k \in DOMAIN fn.dets :
            AboveMinConfidence(fn.dets[k])
            => \E i \in DOMAIN fn.out :
                  fn.out[i].confidence >= fn.dets[k].confidence

\* A call of detect_all_faces_mediapipe with a neural detector available.
DetectedWithPrimary ==
    fn.op = "detect_all_faces_mediapipe" /\ mp_api # "none"

\* C23: with a neural detector available the cascade runs only if the
\* neural detector has fewer than two accepted candidates; the cascade's
\* candidates are returned only if they are strictly more numerous than
\* the accepted ones, otherwise the accepted ones are returned; the list
\* returned is in non-increasing confidence with ids 0..N-1.
C23_CascadeFallback ==
    DetectedWithPrimary
    => /\ fn.ran_cv => Len(fn.accepted) < 2
       /\ IF fn.ran_cv /\ Len(fn.cv_out) > Len(fn.accepted)
          THEN Boxes(fn.out) = Boxes(fn.cv_out)
          ELSE Boxes(fn.out) = Boxes(fn.accepted)
       /\ \A i \in DOMAIN fn.out : fn.out[i].id = i - 1
       /\ \A i, j \in DOMAIN fn.out :
            i < j => fn.out[i].confidence >= fn.out[j].confidence

\* Both detectors find one face: the neural detector's is returned.
C23_Witness ==
    /\ DetectedWithPrimary
    /\ fn.ran_cv
    /\ Len(fn.accepted) = 1 /\ Len(fn.cv_out) = 1
    /\ Boxes(fn.cv_out) # Boxes(fn.accepted)
    /\ Boxes(fn.out) = Boxes(fn.accepted)

\* C24: with more than one candidate and a selection, body_box is the
\* bounds of the alpha channel of the image after remove_faces_except; with
\* exactly one candidate it is the bounds of the segmentation mask; the
\* occlusion step comes before the body bounds.
C24_BodyBoxSource ==
    "bounds" \in Stages
    => /\ (Len(all_faces) > 1 /\ SelectionGiven /\ full_img_rgba # NoImage)
            => /\ "occlude" \in Stages
               /\ body_box = get_body_bounds_from_mask(AlphaOf(full_img_rgba),
                                                       BodyPadNum, BodyPadDen)
       /\ (Len(all_faces) > 1 /\ SelectionGiven /\ full_img_rgba = NoImage)
            => body_box = Null
       /\ (Len(all_faces) = 1 /\ body_mask # NoImage)
            => body_box = get_body_bounds_from_mask(body_mask, BodyPadNum,
                                                    BodyPadDen)
       /\ \A i, j \in DOMAIN ran :
            (ran[i] = "occlude" /\ ran[j] = "bounds") => i < j

\* Several candidates, one selected, and the erasures changed the bounds.
C24_Witness ==
    /\ "bounds" \in Stages /\ "occlude" \in Stages
    /\ Len(all_faces) > 1 /\ SelectionGiven /\ full_img_rgba # NoImage
    /\ body_box # Null
    /\ body_box # get_body_bounds_from_mask(body_mask, BodyPadNum, BodyPadDen)

\* C25: when get_body_bounds_from_mask returns None for an empty mask, the
\* body box is taken from a pose estimate and is not left absent.
C25_PoseFallback ==
    ("bounds" \in Stages /\ Len(all_faces) = 1 /\ body_mask # NoImage
        /\ get_body_bounds_from_mask(body_mask, BodyPadNum, BodyPadDen) = Null)
    => body_box # Null

\* C26: in the RGBA working image every pixel with alpha 0 is white after
\* remove_background and after every erasure, and a pixel an erasure
\* changes ends white with alpha 0.
C26_TransparentIsWhite ==
    /\ [](full_img_rgba # NoImage
            => \A p \in Pixels :
                 full_img_rgba[p].a = 0 => full_img_rgba[p].c = "white")
    /\ [][full_img_rgba # NoImage
            => \A p \in Pixels :
                 full_img_rgba'[p] # full_img_rgba[p]
                 => full_img_rgba'[p] = [a |-> 0, c |-> "white"]]_vars

\* An erasure has turned a pixel that showed the photo white and transparent.
C26_Witness ==
    /\ pc = "bounds" /\ "occlude" \in Stages
    /\ \E p \in Pixels :
         /\ body_mask[p] >= AlphaWhiteBelow
         /\ full_img_rgba[p] = [a |-> 0, c |-> "white"]

\* The padded face rectangles and body regions of the non-selected
\* candidates of a remove_faces_except call; empty when no face is kept.
RfeRegion ==
    IF RfeKept
    THEN UNION {ErasedPixels(fn.faces[i], CenterX(RfeSelected)) : i \in RfeOthers}
    ELSE {}

C28_ResizeToEnvelope ==
    fn.op = "resize"
    => IF fn.bw > 512 \/ fn.bh > 768
       THEN /\ fn.out[1] <= 512 /\ fn.out[2] <= 768
            /\ fn.out[1] >= 1 /\ fn.out[2] >= 1
            /\ 512 * fn.bh < 768 * fn.bw => fn.out[1] = 512
            /\ 512 * fn.bh > 768 * fn.bw => fn.out[2] = 768
            /\ 512 * fn.bh = 768 * fn.bw => fn.out = <<512, 768>>
       ELSE fn.out = <<fn.bw, fn.bh>>

\* v is round((n / d) / 100 * dim), a tie going either way.
Nearest(v, n, d, dim) == 2 * Abs(100 * d * v - n * dim) <= 100 * d

\* C29: crop_to_box turns each percentage of the box into pixels by
\* round(pct / 100 * dimension) and clamps the rectangle to [0, dimension]
\* on both axes.
C29_CropRounds ==
    fn.op = "crop_to_box"
    => /\ Nearest(fn.out.x1, fn.box.x, fn.box.xd, fn.w)
       /\ Nearest(fn.out.y1, fn.box.y, fn.box.yd, fn.h)
       /\ fn.out.x2 < fn.w
            => Nearest(fn.out.x2 - fn.out.x1, fn.box.width, fn.box.xd, fn.w)
       /\ fn.out.y2 < fn.h
            => Nearest(fn.out.y2 - fn.out.y1, fn.box.height, fn.box.yd, fn.h)
       /\ 0 <= fn.out.x1 /\ fn.out.x2 <= fn.w
       /\ 0 <= fn.out.y1 /\ fn.out.y2 <= fn.h

\* The requested region of a bbox clamped to an image of the given size has
\* no row or no column.
ClampsToNothing(bbox, img_size) ==
    LET lo(q, dim) == Min(dim, Max(0, Trunc(q * dim, BboxDen)))
    IN  \/ lo(bbox[3], img_size[2]) <= lo(bbox[1], img_size[2])
        \/ lo(bbox[4], img_size[1]) <= lo(bbox[2], img_size[1])

\* C30: when the requested crop region clamps to zero height or zero width,
\* crop_tensor_to_bbox returns the uncropped image and compare_lpips
\* completes the comparison; the two images have identical dimensions when
\* the distance model is invoked.
C30_DegenerateCrop ==
    (fn.op = "compare_lpips" /\ fn.available)
    => /\ ClampsToNothing(fn.bbox, fn.size2) => fn.crop2.original
       /\ (fn.mode = "bbox_both" /\ ClampsToNothing(fn.bbox, fn.size1))
            => fn.crop1.original
       /\ fn.out.success
       /\ fn.shape1 = fn.shape2

====
